---- MODULE Spec2Model ----
(***************************************************************************)
(* State-machine model of train.py: one process per worker, each running   *)
(* the same script: rank/topology setup, model initialisation (scratch,    *)
(* resume, pretrained), the DDP wrap, and the training loop with its       *)
(* evaluation / checkpoint block, the eval-only break, the training step   *)
(* with the gradient all-reduce, and the release of the process group.     *)
(***************************************************************************)
EXTENDS Integers, Sequences, FiniteSets

\* ---------------------------------------------------------------- bounds
MaxWorkers == 2
MaxEvalInterval == 2
MaxIters == 3
MaxLoss == 2
MaxCkptIter == 2
MaxArgSkew == 1
\* schedules of the learning-rate scheduler: warmup_iters, lr_decay_iters,
\* learning_rate and min_lr (in units of one quantum of learning rate), and
\* the iterations at which get_lr is applied
MaxWarmup == 2
MaxDecay == 4
MaxLr == 2
MaxSchedIter == 6
\* the schedule of the training runs: warmup, cosine and floor within MaxIters
RunWarmup == 1
RunDecay == 2
RunPeak == 2
RunMin == 1
\* corpus sampler: length of a token array, largest token, block_size and
\* batch_size
MaxData == 3
MaxToken == 1
MaxBlock == 2
MaxBatch == 2
\* restarts of the script from its own checkpoint
MaxRestarts == 2

\* ------------------------------------------------------ program constants
\* best_val_loss = 1e9
Sentinel == 1000000000
\* log_interval = 1
log_interval == 1
\* n_layer = 12
n_layer == 12
n_head == 12
\* LOCAL_RANK default of os.environ.get when the variable is absent
NoLocalRank == -1

\* model_args = dict(n_layer = n_layer, ...): the hyperparameters requested
model_args == [n_layer |-> n_layer, n_head |-> n_head]

\* no file at out_dir/ckpt.pt
NoCkpt == [iter_num |-> -1, best_val_loss |-> -1,
           model_args |-> [n_layer |-> -1, n_head |-> -1],
           weights |-> -1, lr |-> [err |-> "none", n |-> 0, d |-> 1]]

VARIABLES
  LOCAL_RANK,     \* environment of each process, indexed by global rank + 1
  eval_interval, max_iters, eval_only, init_from, decay_lr,   \* configuration
  warmup_iters, lr_decay_iters, learning_rate, min_lr,   \* schedule
  probe,          \* get_lr applied at successive iterations: iter, lr, prev
  train_data, val_data, block_size, batch_size,   \* corpus and batch shape
  batch,          \* what the last get_batch(split) returned, or raised
  ckpt,           \* the single slot out_dir/ckpt.pt
  pc,             \* position of each process in the script
  gpu_id, iter_num, best_val_loss,
  losses,         \* losses['val'] of the last estimate_loss(), 0 before any
  group,          \* process group of each process: "none", "held", "released"
  made_dir,       \* os.makedirs(out_dir) executed by the process
  evals, ckpt_writes, prints, train_batches, opt_steps, destroy_calls,
  loaded,         \* checkpoint read by torch.load on resume, NoCkpt if none
  start_iter,     \* iter_num with which the process entered the loop
  eval_iter,      \* iter_num of the last estimate_loss(), -1 before any
  improved,       \* the last estimate_loss() gave losses['val'] < best_val_loss
  exit_kind,      \* how the process left the script
  weights,        \* optimizer steps applied so far to the parameters the process holds
  opt_lr,         \* param_group['lr'] of the optimizer of the process
  mode,           \* "none" before the model is built, then "train" or "eval"
  runs            \* times the script was started again on its own checkpoint

config == <<LOCAL_RANK, eval_interval, max_iters, eval_only, init_from, decay_lr,
            warmup_iters, lr_decay_iters, learning_rate, min_lr,
            train_data, val_data, block_size, batch_size>>
pure == <<probe, batch>>
effects == <<evals, ckpt_writes, prints, train_batches, opt_steps, destroy_calls>>
vars == <<LOCAL_RANK, eval_interval, max_iters, eval_only, init_from, decay_lr,
          warmup_iters, lr_decay_iters, learning_rate, min_lr, probe,
          train_data, val_data, block_size, batch_size, batch,
          ckpt, pc, gpu_id, iter_num, best_val_loss, losses, group, made_dir,
          evals, ckpt_writes, prints, train_batches, opt_steps, destroy_calls,
          loaded, start_iter, eval_iter, improved, exit_kind,
          weights, opt_lr, mode, runs>>

\* ------------------------------------------------------------- topology
\* torchrun sets LOCAL_RANK to the rank of the process within its node
TopologyOf(nnodes, nproc) == [r \in 1..(nnodes * nproc) |-> (r - 1) % nproc]

Topologies ==
  {<<NoLocalRank>>} \cup
  {TopologyOf(n, p) : <<n, p>> \in {q \in (1..MaxWorkers) \X (1..MaxWorkers) :
                                      q[1] * q[2] <= MaxWorkers}}

Workers == DOMAIN LOCAL_RANK
Losses == 1..MaxLoss
InitModes == {"scratch", "resume", "gpt2"}

\* ddp = int(os.environ.get('LOCAL_RANK', -1)) != -1
ddp(w) == LOCAL_RANK[w] # NoLocalRank

\* ------------------------------------------------------- loop conditions
\* if iter_num % eval_interval == 0 and gpu_id == 0
EvalDue(w) == iter_num[w] % eval_interval = 0 /\ gpu_id[w] = 0

\* if losses['val'] < best_val_loss
Improved(val, best) == val < best

\* variant: the checkpoint is saved on every improvement, iteration 0 included
SaveDue_Always(w) == iter_num[w] >= 0

\* variant: the first evaluation boundary after 0 is skipped as well
SaveDue_SkipFirst(w) == iter_num[w] > eval_interval

\* if iter_num > 0
SaveDue(w) == iter_num[w] > 0

\* checkpoint = {'model', 'optimizer', 'model_args', 'iter_num',
\* 'best_val_loss'}: the parameters by the number of optimizer steps they
\* received, the optimizer state by the lr of its parameter groups
CheckpointOf(w, best) ==
  [iter_num |-> iter_num[w], best_val_loss |-> best, model_args |-> model_args,
   weights |-> weights[w], lr |-> opt_lr[w]]

\* variant: the eval-only break is tested one iteration late
EvalOnlyBreak_Late(w) == iter_num[w] = 1 /\ eval_only

\* variant: only the master process takes the eval-only break
EvalOnlyBreak_MasterOnly(w) == iter_num[w] = 0 /\ eval_only /\ gpu_id[w] = 0

\* if iter_num == 0 and eval_only: break
EvalOnlyBreak(w) == iter_num[w] = 0 /\ eval_only

\* if iter_num >= max_iters: break
Terminate(i) == i >= max_iters

\* if iter_num % log_interval == 0 and gpu_id == 0
LogDue(w) == iter_num[w] % log_interval = 0 /\ gpu_id[w] = 0

\* variant: resume continues one iteration after the checkpoint
ResumeIter_Next(c) == c.iter_num + 1

\* iter_num = checkpoint['iter_num']
ResumeIter(c) == c.iter_num

\* variant: resume keeps the default best_val_loss
ResumeBest_Reset(c) == Sentinel

\* best_val_loss = checkpoint['best_val_loss']
ResumeBest(c) == c.best_val_loss

\* variant: only a missing file stops a resume
ResumeFails_MissingOnly == ckpt = NoCkpt

\* torch.load fails on a missing file; for k, v in model_args.items():
\* assert checkpoint_model_args[k] == v
ResumeFails ==
  ckpt = NoCkpt \/ \E k \in DOMAIN model_args : ckpt.model_args[k] # model_args[k]

\* variant: the evaluation forward passes update the parameters
NoGradForward_Updates(wt) == wt + 1

\* @torch.no_grad() ... logits, loss = model(X, Y): the parameters after the
\* forward passes of estimate_loss
NoGradForward(wt) == wt

\* -------------------------------------------------------- corpus sampler
Min(a, b) == IF a <= b THEN a ELSE b

\* token arrays of at most n tokens
Arrays(n) == UNION {[1..k -> 0..MaxToken] : k \in 0..n}

\* data[i:j] of Python for 0 <= i <= j: the elements of index i .. j-1 that
\* exist (index p of Python is element p + 1 here)
Slice(data, i, j) ==
  LET hi == Min(j, Len(data))
  IN IF hi <= i THEN <<>> ELSE [k \in 1..(hi - i) |-> data[i + k]]

\* data = train_data if split == 'train' else val_data
DataOf(split) == IF split = "train" THEN train_data ELSE val_data

\* variant: the last offset lets the target window run one past the end
Offsets_OnePast(data) == 0..(Len(data) - block_size)

\* torch.randint(len(data) - block_size, ...): the values 0 .. high - 1
Offsets(data) == 0..(Len(data) - block_size - 1)

\* torch.stack needs tensors of one size
Stackable(ws) == \A j, k \in DOMAIN ws : Len(ws[j]) = Len(ws[k])

\* no get_batch call
NoBatch == [split |-> "none", err |-> "none", ix |-> <<>>, x |-> <<>>, y |-> <<>>]

\* def get_batch(split), with the offsets ix that torch.randint drew
get_batch(split, ix) ==
  LET data == DataOf(split)
      x == [k \in 1..batch_size |-> Slice(data, ix[k], ix[k] + block_size)]
      y == [k \in 1..batch_size |-> Slice(data, ix[k] + 1, ix[k] + 1 + block_size)]
  IN IF Stackable(x) /\ Stackable(y)
       THEN [split |-> split, err |-> "none", ix |-> ix, x |-> x, y |-> y]
       ELSE [split |-> split, err |-> "RuntimeError", ix |-> ix, x |-> <<>>, y |-> <<>>]

\* torch.randint raises when len(data) - block_size <= 0
get_batch_fails(split) ==
  [split |-> split, err |-> "RuntimeError", ix |-> <<>>, x |-> <<>>, y |-> <<>>]

\* ------------------------------------------------------------ scheduler
\* a learning rate is the rational n / d with d > 0; get_lr returns one, or
\* raises
LrValue(n, d) == [err |-> "none", n |-> n, d |-> d]
LrError(e) == [err |-> e, n |-> 0, d |-> 1]

LrEq(p, q) == p.err = "none" /\ q.err = "none" /\ p.n * q.d = q.n * p.d
LrLeq(p, q) == p.err = "none" /\ q.err = "none" /\ p.n * q.d <= q.n * p.d

\* if iter < warmup_iters
InWarmup(it) == it < warmup_iters

\* variant: the floor starts one iteration after lr_decay_iters + 1
PastDecay_Late(it) == it > lr_decay_iters + 1

\* if iter > lr_decay_iters
PastDecay(it) == it > lr_decay_iters

\* math.cos(math.pi * a / b) for 0 <= a <= b, b > 0, as the rational n / d of
\* Bhaskara's formula cos(x) = (pi^2 - 4 x^2) / (pi^2 + x^2) on [0, pi/2]
\* and its mirror image on [pi/2, pi]: exact at 0, pi/2 and pi, strictly
\* decreasing in between
CosPi(a, b) ==
  IF 2 * a <= b
    THEN [n |-> b * b - 4 * a * a, d |-> b * b + a * a]
    ELSE [n |-> 4 * (b - a) * (b - a) - b * b, d |-> b * b + (b - a) * (b - a)]

\* assert 0 <= decay_ratio <= 1, with decay_ratio = a / b
RatioInRange(a, b) ==
  IF b > 0 THEN 0 <= a /\ a <= b ELSE a <= 0 /\ b <= a

\* variant: the cosine runs from min_lr up to learning_rate
Cosine_Rising(a, b) ==
  LET c == CosPi(a, b)
  IN LrValue(learning_rate * 2 * c.d + (c.d + c.n) * (min_lr - learning_rate), 2 * c.d)

\* coeff = 0.5 * (1.0 + math.cos(math.pi * decay_ratio))
\* return min_lr + coeff * (learning_rate - min_lr)
Cosine(a, b) ==
  LET c == CosPi(a, b)
  IN LrValue(min_lr * 2 * c.d + (c.d + c.n) * (learning_rate - min_lr), 2 * c.d)

\* def get_lr(iter)
get_lr(it) ==
  IF InWarmup(it) THEN LrValue(learning_rate * it, warmup_iters)
  ELSE IF PastDecay(it) THEN LrValue(min_lr, 1)
  ELSE LET a == it - warmup_iters
           b == lr_decay_iters - warmup_iters
       IN IF b = 0 THEN LrError("ZeroDivisionError")
          ELSE IF ~RatioInRange(a, b) THEN LrError("AssertionError")
          ELSE Cosine(a, b)

\* ----------------------------------------------------------------- Init
\* optimizer = model.configure_optimizers(weight_decay, learning_rate, betas)
FreshLr == LrValue(learning_rate, 1)

\* no optimizer yet
NoLr == LrError("none")

\* lr the loop means the optimizer to use at iteration it
LoopLr(it) == IF decay_lr THEN get_lr(it) ELSE FreshLr

\* checkpoints an earlier run of the script can have left: written only at
\* iter_num > 0, after as many optimizer steps, with the validation loss that
\* had just become the best one, the hyperparameters of that run, and the lr
\* its optimizer held (that run decayed the learning rate or did not)
Checkpoints ==
  {[iter_num |-> i, best_val_loss |-> b, model_args |-> a, weights |-> i,
    lr |-> IF decayed THEN get_lr(i) ELSE FreshLr] :
     i \in 1..MaxCkptIter, b \in Losses,
     a \in [n_layer : n_layer..(n_layer + MaxArgSkew), n_head : n_head..(n_head + MaxArgSkew)],
     decayed \in BOOLEAN}

\* state of every process before its first statement
ProcInit ==
  /\ pc = [w \in Workers |-> "start"]
  /\ gpu_id = [w \in Workers |-> NoLocalRank]
  /\ iter_num = [w \in Workers |-> 0]
  /\ best_val_loss = [w \in Workers |-> Sentinel]
  /\ losses = [w \in Workers |-> 0]
  /\ group = [w \in Workers |-> "none"]
  /\ made_dir = [w \in Workers |-> FALSE]
  /\ evals = [w \in Workers |-> 0]
  /\ ckpt_writes = [w \in Workers |-> 0]
  /\ prints = [w \in Workers |-> 0]
  /\ train_batches = [w \in Workers |-> 0]
  /\ opt_steps = [w \in Workers |-> 0]
  /\ destroy_calls = [w \in Workers |-> 0]
  /\ loaded = [w \in Workers |-> NoCkpt]
  /\ start_iter = [w \in Workers |-> 0]
  /\ eval_iter = [w \in Workers |-> -1]
  /\ improved = [w \in Workers |-> FALSE]
  /\ exit_kind = [w \in Workers |-> "running"]
  /\ weights = [w \in Workers |-> 0]
  /\ opt_lr = [w \in Workers |-> NoLr]
  /\ mode = [w \in Workers |-> "none"]

\* no get_lr probe
NoProbe == [iter |-> -1, lr |-> LrError("none"), prev |-> LrError("none")]

\* one corpus and batch shape for the training runs, and no get_batch probe
CorpusIdle ==
  /\ train_data = <<0, 1>>
  /\ val_data = <<1, 0>>
  /\ block_size = 1
  /\ batch_size = 1
  /\ batch = NoBatch

Init ==
  /\ LOCAL_RANK \in Topologies
  /\ eval_interval \in 1..MaxEvalInterval
  /\ max_iters \in 0..MaxIters
  /\ eval_only \in BOOLEAN
  /\ init_from \in InitModes
  /\ decay_lr \in BOOLEAN
  /\ warmup_iters = RunWarmup
  /\ lr_decay_iters = RunDecay
  /\ learning_rate = RunPeak
  /\ min_lr = RunMin
  /\ ckpt \in IF init_from = "resume" THEN Checkpoints \cup {NoCkpt} ELSE {NoCkpt}
  /\ probe = NoProbe
  /\ CorpusIdle
  /\ ProcInit
  /\ runs = 0

\* -------------------------------------------------------------- actions
\* lines 96-106: process group, gpu_id, output directory
Setup(w) ==
  /\ pc[w] = "start"
  /\ group' = [group EXCEPT ![w] = IF ddp(w) THEN "held" ELSE "none"]
  /\ gpu_id' = [gpu_id EXCEPT ![w] = IF ddp(w) THEN LOCAL_RANK[w] ELSE 0]
  /\ made_dir' = [made_dir EXCEPT ![w] = (gpu_id'[w] = 0)]
  /\ pc' = [pc EXCEPT ![w] = "model_init"]
  /\ UNCHANGED <<config, pure, runs, effects, ckpt, iter_num, best_val_loss, losses,
                 loaded, start_iter, eval_iter, improved, exit_kind, weights, opt_lr, mode>>

\* lines 122-164: iter_num / best_val_loss, model, optimizer, compile
ModelInit(w) ==
  /\ pc[w] = "model_init"
  /\ loaded' = [loaded EXCEPT ![w] = IF init_from = "resume" THEN ckpt ELSE @]
  /\ IF init_from = "resume" /\ ResumeFails
       THEN /\ prints' = [prints EXCEPT ![w] = @ + 1]
            /\ pc' = [pc EXCEPT ![w] = "crashed"]
            /\ exit_kind' = [exit_kind EXCEPT ![w] = "raised_in_init"]
            /\ UNCHANGED <<iter_num, best_val_loss, start_iter, weights, opt_lr, mode>>
       ELSE /\ prints' = [prints EXCEPT ![w] = @ + 2]
            /\ mode' = [mode EXCEPT ![w] = "train"]
            /\ weights' = [weights EXCEPT ![w] =
                 IF init_from = "resume" THEN ckpt.weights ELSE 0]
            /\ opt_lr' = [opt_lr EXCEPT ![w] =
                 IF init_from = "resume" THEN ckpt.lr ELSE FreshLr]
            /\ iter_num' = [iter_num EXCEPT ![w] =
                 IF init_from = "resume" THEN ResumeIter(ckpt) ELSE 0]
            /\ best_val_loss' = [best_val_loss EXCEPT ![w] =
                 IF init_from = "resume" THEN ResumeBest(ckpt) ELSE Sentinel]
            /\ start_iter' = [start_iter EXCEPT ![w] = iter_num'[w]]
            /\ pc' = [pc EXCEPT ![w] = "ddp_wrap"]
            /\ UNCHANGED exit_kind
  /\ UNCHANGED <<config, pure, runs, ckpt, gpu_id, losses, group, made_dir, evals, ckpt_writes,
                 train_batches, opt_steps, destroy_calls, eval_iter, improved>>

\* lines 166-168: the DDP constructor synchronises the replicas of all
\* processes of the group; a single process does not wrap
DDPWrap ==
  /\ \A w \in Workers : pc[w] = "ddp_wrap"
  /\ pc' = [w \in Workers |-> "loop_top"]
  /\ UNCHANGED <<config, pure, runs, effects, ckpt, gpu_id, iter_num, best_val_loss, losses,
                 group, made_dir, loaded, start_iter, eval_iter, improved, exit_kind,
                 weights, opt_lr, mode>>

\* lines 242-243: if iter_num == 0 and eval_only: break
AfterEval(w) ==
  /\ pc' = [pc EXCEPT ![w] = IF EvalOnlyBreak(w) THEN "exit" ELSE "train"]
  /\ exit_kind' = [exit_kind EXCEPT ![w] = IF EvalOnlyBreak(w) THEN "eval_only" ELSE @]

\* lines 212-220: the learning rate of the iteration; on an evaluation
\* boundary estimate_loss is entered and puts the model in eval mode (173),
\* otherwise lines 242-243 follow
LoopTop(w) ==
  /\ pc[w] = "loop_top"
  /\ IF decay_lr /\ get_lr(iter_num[w]).err # "none"
       THEN /\ pc' = [pc EXCEPT ![w] = "crashed"]
            /\ exit_kind' = [exit_kind EXCEPT ![w] = "raised_in_loop"]
            /\ UNCHANGED <<opt_lr, mode>>
       ELSE /\ opt_lr' = [opt_lr EXCEPT ![w] = IF decay_lr THEN get_lr(iter_num[w]) ELSE @]
            /\ IF EvalDue(w)
                 THEN /\ mode' = [mode EXCEPT ![w] = "eval"]
                      /\ pc' = [pc EXCEPT ![w] = "estimate"]
                      /\ UNCHANGED exit_kind
                 ELSE /\ AfterEval(w)
                      /\ UNCHANGED mode
  /\ UNCHANGED <<config, pure, runs, effects, ckpt, gpu_id, iter_num, best_val_loss, losses,
                 group, made_dir, loaded, start_iter, eval_iter, improved, weights>>

\* lines 174-183 and 221: the forward passes of estimate_loss under no_grad,
\* model.train(), and the estimates returned into losses
EstimateLoss(w) ==
  /\ pc[w] = "estimate"
  /\ \E val \in Losses : losses' = [losses EXCEPT ![w] = val]
  /\ evals' = [evals EXCEPT ![w] = @ + 1]
  /\ weights' = [weights EXCEPT ![w] = NoGradForward(@)]
  /\ mode' = [mode EXCEPT ![w] = "train"]
  /\ pc' = [pc EXCEPT ![w] = "evaluated"]
  /\ UNCHANGED <<config, pure, runs, ckpt, gpu_id, iter_num, best_val_loss, group, made_dir,
                 ckpt_writes, prints, train_batches, opt_steps, destroy_calls,
                 loaded, start_iter, eval_iter, improved, exit_kind, opt_lr>>

\* lines 222-243: report, best_val_loss, checkpoint, eval-only break
EvalReport(w) ==
  /\ pc[w] = "evaluated"
  /\ LET better == Improved(losses[w], best_val_loss[w])
         save == better /\ SaveDue(w)
         best == IF better THEN losses[w] ELSE best_val_loss[w]
     IN /\ prints' = [prints EXCEPT ![w] = @ + 1]
        /\ eval_iter' = [eval_iter EXCEPT ![w] = iter_num[w]]
        /\ improved' = [improved EXCEPT ![w] = better]
        /\ best_val_loss' = [best_val_loss EXCEPT ![w] = best]
        /\ ckpt' = IF save THEN CheckpointOf(w, best) ELSE ckpt
        /\ ckpt_writes' = [ckpt_writes EXCEPT ![w] = IF save THEN @ + 1 ELSE @]
  /\ AfterEval(w)
  /\ UNCHANGED <<config, pure, runs, gpu_id, iter_num, losses, group, made_dir, evals,
                 train_batches, opt_steps, destroy_calls, loaded, start_iter,
                 weights, opt_lr, mode>>

\* lines 245-250: training batch, forward, zero_grad, backward; under DDP the
\* backward pass ends in the all-reduce of the gradients
TrainBatch(w) ==
  /\ pc[w] = "train"
  /\ train_batches' = [train_batches EXCEPT ![w] = @ + 1]
  /\ pc' = [pc EXCEPT ![w] = IF ddp(w) THEN "grad_sync" ELSE "opt_step"]
  /\ UNCHANGED <<config, pure, runs, ckpt, gpu_id, iter_num, best_val_loss, losses, group,
                 made_dir, evals, ckpt_writes, prints, opt_steps, destroy_calls,
                 loaded, start_iter, eval_iter, improved, exit_kind, weights, opt_lr, mode>>

\* variant: a process leaves the all-reduce without waiting for the others
GradSync_Solo ==
  /\ \E w \in Workers : pc[w] = "grad_sync" /\ pc' = [pc EXCEPT ![w] = "opt_step"]
  /\ UNCHANGED <<config, pure, runs, effects, ckpt, gpu_id, iter_num, best_val_loss, losses,
                 group, made_dir, loaded, start_iter, eval_iter, improved, exit_kind,
                 weights, opt_lr, mode>>

\* line 250 under DDP (line 168): the all-reduce completes once every process
\* of the group has contributed its gradients
GradSync ==
  /\ \A w \in Workers : pc[w] = "grad_sync"
  /\ pc' = [w \in Workers |-> "opt_step"]
  /\ UNCHANGED <<config, pure, runs, effects, ckpt, gpu_id, iter_num, best_val_loss, losses,
                 group, made_dir, loaded, start_iter, eval_iter, improved, exit_kind,
                 weights, opt_lr, mode>>

\* lines 252-264: optimizer step, telemetry, iter_num += 1, termination
OptStep(w) ==
  /\ pc[w] = "opt_step"
  /\ opt_steps' = [opt_steps EXCEPT ![w] = @ + 1]
  /\ weights' = [weights EXCEPT ![w] = @ + 1]
  /\ prints' = [prints EXCEPT ![w] = IF LogDue(w) THEN @ + 1 ELSE @]
  /\ iter_num' = [iter_num EXCEPT ![w] = @ + 1]
  /\ pc' = [pc EXCEPT ![w] = IF Terminate(iter_num'[w]) THEN "exit" ELSE "loop_top"]
  /\ exit_kind' = [exit_kind EXCEPT ![w] =
       IF Terminate(iter_num'[w]) THEN "max_iters" ELSE @]
  /\ UNCHANGED <<config, pure, runs, ckpt, gpu_id, best_val_loss, losses, group, made_dir,
                 evals, ckpt_writes, train_batches, destroy_calls, loaded, start_iter,
                 eval_iter, improved, opt_lr, mode>>

\* line 266: destroy_process_group(), reached after either break
Destroy(w) ==
  /\ pc[w] = "exit"
  /\ destroy_calls' = [destroy_calls EXCEPT ![w] = @ + 1]
  /\ group' = [group EXCEPT ![w] = IF @ = "held" THEN "released" ELSE @]
  /\ pc' = [pc EXCEPT ![w] = "done"]
  /\ UNCHANGED <<config, pure, runs, ckpt, gpu_id, iter_num, best_val_loss, losses, made_dir,
                 evals, ckpt_writes, prints, train_batches, opt_steps,
                 loaded, start_iter, eval_iter, improved, exit_kind, weights, opt_lr, mode>>

\* lines 210-264: an interruption or an error raised inside the loop is caught
\* nowhere: the process ends without reaching line 266
Raise(w) ==
  /\ pc[w] \in {"loop_top", "estimate", "evaluated", "train", "grad_sync", "opt_step"}
  /\ pc' = [pc EXCEPT ![w] = "crashed"]
  /\ exit_kind' = [exit_kind EXCEPT ![w] = "raised_in_loop"]
  /\ UNCHANGED <<config, pure, runs, effects, ckpt, gpu_id, iter_num, best_val_loss, losses,
                 group, made_dir, loaded, start_iter, eval_iter, improved,
                 weights, opt_lr, mode>>

Step(w) ==
  \/ Setup(w)
  \/ ModelInit(w)
  \/ LoopTop(w)
  \/ EstimateLoss(w)
  \/ EvalReport(w)
  \/ TrainBatch(w)
  \/ OptStep(w)
  \/ Destroy(w)

Next ==
  \/ \E w \in Workers : Setup(w)
  \/ \E w \in Workers : ModelInit(w)
  \/ DDPWrap
  \/ \E w \in Workers : LoopTop(w)
  \/ \E w \in Workers : EstimateLoss(w)
  \/ \E w \in Workers : EvalReport(w)
  \/ \E w \in Workers : TrainBatch(w)
  \/ GradSync
  \/ \E w \in Workers : OptStep(w)
  \/ \E w \in Workers : Destroy(w)
  \/ \E w \in Workers : Raise(w)

Spec == Init /\ [][Next]_vars

\* every process that can take a step of the script eventually takes it, and
\* a collective that every process has entered completes
LiveSpec ==
  /\ Init
  /\ [][Next]_vars
  /\ \A w \in 1..MaxWorkers : WF_vars(w \in Workers /\ Step(w))
  /\ WF_vars(DDPWrap)
  /\ WF_vars(GradSync)

\* --------------------------------------------- get_lr as a pure function
\* the part of the state that belongs to the training run, at rest
RunIdle ==
  /\ LOCAL_RANK = <<NoLocalRank>>
  /\ eval_interval = 1
  /\ max_iters = 0
  /\ eval_only = FALSE
  /\ init_from = "scratch"
  /\ decay_lr = TRUE
  /\ ckpt = NoCkpt
  /\ ProcInit
  /\ runs = 0

\* every schedule within the bounds, get_lr applied at iteration 0
LrInit ==
  /\ warmup_iters \in 0..MaxWarmup
  /\ lr_decay_iters \in 0..MaxDecay
  /\ learning_rate \in 0..MaxLr
  /\ min_lr \in 0..MaxLr
  /\ probe = [iter |-> 0, lr |-> get_lr(0), prev |-> LrError("none")]
  /\ CorpusIdle
  /\ RunIdle

\* get_lr applied at the next iteration
LrProbe ==
  /\ probe.iter < MaxSchedIter
  /\ probe' = [iter |-> probe.iter + 1, lr |-> get_lr(probe.iter + 1), prev |-> probe.lr]
  /\ UNCHANGED <<config, batch, ckpt, pc, gpu_id, iter_num, best_val_loss, losses, group,
                 made_dir, effects, loaded, start_iter, eval_iter, improved, exit_kind,
                 weights, opt_lr, mode, runs>>

LrNext == LrProbe

LrSpec == LrInit /\ [][LrNext]_vars

\* ------------------------------------------- get_batch as a pure function
\* every token array within the bounds, cut anywhere into train.bin and
\* val.bin (get_batch reads one of the two per call), every block_size and
\* batch_size
BatchInit ==
  /\ \E corpus \in Arrays(MaxData) : \E cut \in 0..Len(corpus) :
        /\ train_data = Slice(corpus, 0, cut)
        /\ val_data = Slice(corpus, cut, Len(corpus))
  /\ block_size \in 1..MaxBlock
  /\ batch_size \in 1..MaxBatch
  /\ batch = NoBatch
  /\ warmup_iters = RunWarmup
  /\ lr_decay_iters = RunDecay
  /\ learning_rate = RunPeak
  /\ min_lr = RunMin
  /\ probe = NoProbe
  /\ RunIdle

\* get_batch(split) with any offsets torch.randint can return
GetBatch(split) ==
  /\ IF Offsets(DataOf(split)) = {}
       THEN batch' = get_batch_fails(split)
       ELSE \E ix \in [1..batch_size -> Offsets(DataOf(split))] :
              batch' = get_batch(split, ix)
  /\ UNCHANGED <<config, probe, ckpt, pc, gpu_id, iter_num, best_val_loss, losses, group,
                 made_dir, effects, loaded, start_iter, eval_iter, improved, exit_kind,
                 weights, opt_lr, mode, runs>>

BatchNext ==
  \/ GetBatch("train")
  \/ GetBatch("val")

BatchSpec == BatchInit /\ [][BatchNext]_vars

\* ------------------------------------------ runs chained by checkpoints
\* the processes are stopped wherever they are and the script is started
\* again with init_from = 'resume' on the same out_dir
Restart ==
  /\ runs < MaxRestarts
  /\ runs' = runs + 1
  /\ init_from' = "resume"
  /\ pc' = [w \in Workers |-> "start"]
  /\ gpu_id' = [w \in Workers |-> NoLocalRank]
  /\ iter_num' = [w \in Workers |-> 0]
  /\ best_val_loss' = [w \in Workers |-> Sentinel]
  /\ losses' = [w \in Workers |-> 0]
  /\ group' = [w \in Workers |-> "none"]
  /\ made_dir' = [w \in Workers |-> FALSE]
  /\ evals' = [w \in Workers |-> 0]
  /\ ckpt_writes' = [w \in Workers |-> 0]
  /\ prints' = [w \in Workers |-> 0]
  /\ train_batches' = [w \in Workers |-> 0]
  /\ opt_steps' = [w \in Workers |-> 0]
  /\ destroy_calls' = [w \in Workers |-> 0]
  /\ loaded' = [w \in Workers |-> NoCkpt]
  /\ start_iter' = [w \in Workers |-> 0]
  /\ eval_iter' = [w \in Workers |-> -1]
  /\ improved' = [w \in Workers |-> FALSE]
  /\ exit_kind' = [w \in Workers |-> "running"]
  /\ weights' = [w \in Workers |-> 0]
  /\ opt_lr' = [w \in Workers |-> NoLr]
  /\ mode' = [w \in Workers |-> "none"]
  /\ UNCHANGED <<LOCAL_RANK, eval_interval, max_iters, eval_only, decay_lr,
                 warmup_iters, lr_decay_iters, learning_rate, min_lr,
                 train_data, val_data, block_size, batch_size, pure, ckpt>>

\* a lineage starts from scratch or from the pretrained weights, with an
\* empty out_dir
ChainInit == Init /\ init_from # "resume"

ChainNext ==
  \/ Next
  \/ Restart

ChainSpec == ChainInit /\ [][ChainNext]_vars

\* ------------------------------------------------------------ properties
Max(a, b) == IF a >= b THEN a ELSE b

\* global rank of a process as torchrun numbers them
Rank(w) == w - 1

Distributed == \A w \in Workers : ddp(w)

\* the process got past model initialisation
Entered(w) == pc[w] \notin {"start", "model_init"} /\ exit_kind[w] # "raised_in_init"

\* C1: a checkpoint is written only by a process with gpu_id 0, at an
\* iteration that is a positive multiple of eval_interval, and only when the
\* validation loss just evaluated is strictly below best_val_loss as it was
\* before the evaluation; the slot changes only by such a write.
C1_CheckpointWriteGuard ==
  [][ /\ \A w \in Workers :
           ckpt_writes'[w] # ckpt_writes[w] =>
             /\ gpu_id[w] = 0
             /\ iter_num[w] % eval_interval = 0
             /\ iter_num[w] > 0
             /\ pc[w] = "evaluated" /\ evals[w] > 0
             /\ losses[w] < best_val_loss[w]
             /\ best_val_loss'[w] = losses[w]
      /\ ckpt' # ckpt => \E w \in Workers : ckpt_writes'[w] # ckpt_writes[w] ]_vars

C1_Witness ==
  \E w \in Workers : ckpt_writes[w] > 0 /\ evals[w] > ckpt_writes[w] /\ iter_num[w] > 0

\* C2: in a distributed run of two processes on one node (local ranks 0 and
\* 1), the process of rank 1 writes no checkpoint and prints nothing.
C2_OnlyRankZeroSideEffects ==
  LOCAL_RANK = TopologyOf(1, 2) =>
    \A w \in Workers : Rank(w) # 0 => ckpt_writes[w] = 0 /\ prints[w] = 0

\* C3: once every process has set its gpu_id, exactly one process of the run
\* passes the gate gpu_id == 0, and at most one process writes the checkpoint.
C3_ExactlyOnePrimary ==
  (\A w \in Workers : pc[w] # "start") =>
    /\ Cardinality({w \in Workers : gpu_id[w] = 0}) = 1
    /\ Cardinality({w \in Workers : ckpt_writes[w] > 0}) <= 1

\* C4: with eval_only, init_from scratch and eval_interval 1, no process
\* samples a training batch, steps the optimizer, writes a checkpoint or
\* advances iter_num; a process evaluates at most once, and one that has left
\* the loop left it by the eval-only break, after exactly one evaluation if its
\* gpu_id is 0.
C4_EvalOnlyScratch ==
  (eval_only /\ init_from = "scratch" /\ eval_interval = 1) =>
    \A w \in Workers :
      /\ train_batches[w] = 0 /\ opt_steps[w] = 0
      /\ ckpt_writes[w] = 0 /\ ckpt = NoCkpt
      /\ iter_num[w] = 0
      /\ evals[w] <= 1
      /\ pc[w] \in {"exit", "done"} =>
           /\ exit_kind[w] = "eval_only"
           /\ gpu_id[w] = 0 => evals[w] = 1

C4_Witness ==
  /\ eval_only /\ init_from = "scratch" /\ eval_interval = 1
  /\ \A w \in Workers : pc[w] = "done" /\ exit_kind[w] = "eval_only"
  /\ \E w \in Workers : evals[w] = 1

\* C5: with eval_only no process ever samples a training batch or steps the
\* optimizer, whatever init_from is.
C5_EvalOnlyNeverTrains ==
  eval_only => \A w \in Workers : train_batches[w] = 0 /\ opt_steps[w] = 0

\* C6: a process resumed from a checkpoint with iteration N and best loss B
\* reaches the loop with iter_num = N and best_val_loss = B; from then on
\* best_val_loss is at most B and never the default 1e9, and when the loop
\* ends by iter_num >= max_iters after one pass (max_iters <= N + 1) iter_num
\* is N + 1.
C6_ResumeContinuity ==
  \A w \in Workers :
    (init_from = "resume" /\ Entered(w)) =>
      LET N == loaded[w].iter_num
          B == loaded[w].best_val_loss
      IN /\ loaded[w] # NoCkpt
         /\ start_iter[w] = N
         /\ (pc[w] \in {"ddp_wrap", "loop_top"} /\ opt_steps[w] = 0) =>
              (iter_num[w] = N /\ best_val_loss[w] = B)
         /\ best_val_loss[w] <= B
         /\ best_val_loss[w] # Sentinel
         /\ iter_num[w] >= N
         /\ (exit_kind[w] = "max_iters" /\ max_iters <= N + 1) =>
              (iter_num[w] = N + 1 /\ opt_steps[w] = 1)

C6_Witness ==
  \E w \in Workers :
    /\ init_from = "resume" /\ pc[w] = "done" /\ exit_kind[w] = "max_iters"
    /\ iter_num[w] = loaded[w].iter_num + 1
    /\ best_val_loss[w] < loaded[w].best_val_loss

\* iteration from which a restart continues: that of the checkpoint in the
\* slot, 0 when there is none
RestartIter == IF ckpt = NoCkpt THEN 0 ELSE ckpt.iter_num

\* C7 as stated: at every point the checkpoint in the slot is at most
\* eval_interval iterations behind the iteration of every process.
C7_CheckpointNeverStale ==
  \A w \in Workers : Entered(w) => iter_num[w] - RestartIter <= eval_interval

\* C7 as amended: a checkpoint is written only by an evaluation at an
\* iteration > 0 that strictly improves best_val_loss; while the last
\* evaluation of a process with gpu_id 0 was such a one, the slot holds a
\* checkpoint at most eval_interval iterations behind that process, and the
\* checkpoint in the slot never moves back.
C7_CheckpointFreshAfterImprovement ==
  /\ \A w \in Workers :
       (gpu_id[w] = 0 /\ improved[w] /\ eval_iter[w] > 0) =>
         /\ ckpt # NoCkpt
         /\ ckpt.iter_num >= eval_iter[w]
         /\ iter_num[w] - ckpt.iter_num <= eval_interval
  /\ \A w \in Workers : loaded[w] # NoCkpt => ckpt.iter_num >= loaded[w].iter_num

C7_Witness ==
  \E w \in Workers :
    /\ improved[w] /\ eval_iter[w] > 0 /\ ckpt_writes[w] > 0
    /\ iter_num[w] - ckpt.iter_num = eval_interval

\* C8: a training step is under way only at an iteration below max_iters, and
\* a loop that ended by the termination test ended at
\* max(start iteration, max_iters).
C8_StepOnlyBelowMaxIters ==
  \A w \in Workers :
    /\ pc[w] \in {"grad_sync", "opt_step"} => iter_num[w] < max_iters
    /\ exit_kind[w] = "max_iters" => iter_num[w] = Max(start_iter[w], max_iters)

\* C9: a process of a distributed run that has ended after entering the loop
\* (termination test, eval-only break, or an error raised in the loop) has
\* released its process group.
C9_GroupReleasedOnEveryExit ==
  \A w \in Workers :
    (ddp(w) /\ pc[w] \in {"done", "crashed"}
            /\ exit_kind[w] \in {"max_iters", "eval_only", "raised_in_loop"}) =>
      group[w] = "released"

NoFailure == \A w \in Workers : pc[w] # "crashed"

AllReleased == \A w \in Workers : pc[w] = "done" /\ group[w] = "released"

\* C10: in a distributed run in which no process fails, every process
\* eventually reaches line 266 and releases the process group.
C10_AllWorkersRelease ==
  (Distributed /\ []NoFailure) => <>AllReleased

C10_Witness ==
  /\ Distributed /\ Cardinality(Workers) > 1 /\ AllReleased
  /\ \E w \in Workers : evals[w] > 1 /\ ckpt_writes[w] > 0
  /\ \E w \in Workers : gpu_id[w] # 0 /\ opt_steps[w] > 1

\* the schedule is one the scheduler accepts: lr_decay_iters > warmup_iters
ScheduleAccepted == lr_decay_iters > warmup_iters

Probed == probe.iter >= 0

\* the shape of get_lr at the probed iteration: zero at 0, rising up to
\* warmup_iters, the peak at warmup_iters, falling up to lr_decay_iters, the
\* floor at lr_decay_iters and after it
LrShapeAtProbe ==
  LET i == probe.iter
      peak == LrValue(learning_rate, 1)
      floor == LrValue(min_lr, 1)
  IN /\ probe.lr.err = "none"
     /\ i = 0 => LrEq(probe.lr, LrValue(0, 1))
     /\ (1 <= i /\ i <= warmup_iters) => LrLeq(probe.prev, probe.lr)
     /\ i = warmup_iters => LrEq(probe.lr, peak)
     /\ (warmup_iters < i /\ i <= lr_decay_iters) => LrLeq(probe.lr, probe.prev)
     /\ i = lr_decay_iters => LrEq(probe.lr, floor)
     /\ i > lr_decay_iters => LrEq(probe.lr, floor)

\* C11 as stated: for every schedule with lr_decay_iters > warmup_iters, any
\* learning_rate and min_lr, and every iteration >= 0, get_lr has the shape
\* above.
C11_LrShape == (Probed /\ ScheduleAccepted) => LrShapeAtProbe

\* C11 as amended: get_lr has the shape above for every schedule with
\* lr_decay_iters > warmup_iters >= 1 and 0 <= min_lr <= learning_rate.
C11_LrShapeWithWarmupAndFloorBelowPeak ==
  (Probed /\ ScheduleAccepted /\ warmup_iters >= 1
          /\ 0 <= min_lr /\ min_lr <= learning_rate) => LrShapeAtProbe

C11_Witness ==
  /\ Probed /\ warmup_iters >= 1 /\ min_lr < learning_rate
  /\ probe.iter = lr_decay_iters /\ lr_decay_iters >= warmup_iters + 2
  /\ ~LrEq(probe.prev, LrValue(min_lr, 1))
  /\ ~LrLeq(LrValue(learning_rate, 1), probe.prev)
  /\ LrEq(probe.lr, LrValue(min_lr, 1))

\* C16: for every schedule with lr_decay_iters > warmup_iters, at every
\* iteration >= 0 that is neither < warmup_iters nor > lr_decay_iters the
\* decay ratio (iter - warmup_iters) / (lr_decay_iters - warmup_iters) has a
\* positive denominator and lies in [0, 1], and get_lr raises nothing.
C16_DecayRatioInRange ==
  (Probed /\ ScheduleAccepted /\ ~InWarmup(probe.iter) /\ ~PastDecay(probe.iter)) =>
    /\ lr_decay_iters - warmup_iters > 0
    /\ 0 <= probe.iter - warmup_iters
    /\ probe.iter - warmup_iters <= lr_decay_iters - warmup_iters
    /\ probe.lr.err = "none"

C16_Witness ==
  /\ Probed /\ ScheduleAccepted /\ ~InWarmup(probe.iter) /\ ~PastDecay(probe.iter)
  /\ 0 < probe.iter - warmup_iters
  /\ probe.iter < lr_decay_iters
  /\ probe.lr.err = "none"

\* the window of L tokens that starts at Python index i of data
Window(data, i) == [j \in 1..block_size |-> data[i + j]]

\* the offsets at which a window and its shifted target fit in data
ValidOffsets(data) == {i \in 0..Len(data) : i + block_size + 1 <= Len(data)}

LongEnough(split) == Len(DataOf(split)) >= block_size + 1

\* C12: for a split whose array has at least L+1 tokens, get_batch returns a
\* batch; each of its B offsets i has 0 <= i and i + L + 1 <= len(data); the
\* offsets that can be drawn are all the valid ones; the input window is the
\* tokens i .. i+L-1, the target window the tokens i+1 .. i+L, both of length L.
C12_BatchWindows ==
  /\ \A split \in {"train", "val"} :
       LongEnough(split) => Offsets(DataOf(split)) = ValidOffsets(DataOf(split))
  /\ (batch.split \in {"train", "val"} /\ LongEnough(batch.split)) =>
       /\ batch.err = "none"
       /\ DOMAIN batch.ix = 1..batch_size
       /\ DOMAIN batch.x = 1..batch_size
       /\ DOMAIN batch.y = 1..batch_size
       /\ \A k \in 1..batch_size :
            LET i == batch.ix[k]
                data == DataOf(batch.split)
            IN /\ 0 <= i
               /\ i + block_size + 1 <= Len(data)
               /\ Len(batch.x[k]) = block_size
               /\ Len(batch.y[k]) = block_size
               /\ batch.x[k] = Window(data, i)
               /\ batch.y[k] = Window(data, i + 1)

\* a batch of two windows at different offsets, one of them the last valid
\* offset, whose targets differ from their inputs
C12_Witness ==
  /\ batch.split = "val"
  /\ batch.err = "none"
  /\ batch_size = 2
  /\ batch.ix[1] # batch.ix[2]
  /\ batch.ix[2] = Len(val_data) - block_size - 1
  /\ batch.x[2] # batch.y[2]
  /\ C12_BatchWindows

\* C13: a call of estimate_loss leaves the parameters, the optimizer state,
\* iter_num and best_val_loss of the process as they were, at every call; only
\* the estimates it returns change.
C13_EstimateLossFrame ==
  [][ \A w \in Workers :
        evals'[w] # evals[w] =>
          /\ weights'[w] = weights[w]
          /\ opt_lr'[w] = opt_lr[w]
          /\ iter_num'[w] = iter_num[w]
          /\ best_val_loss'[w] = best_val_loss[w]
          /\ ckpt' = ckpt ]_vars

\* a second evaluation pass has returned on trained parameters, with other
\* estimates than the best so far
C13_Witness ==
  \E w \in Workers :
    /\ pc[w] = "evaluated" /\ evals[w] >= 2
    /\ weights[w] > 0 /\ opt_steps[w] > 0
    /\ losses[w] # best_val_loss[w]

\* the checkpoint the process read has a hyperparameter other than requested
Mismatch(w) ==
  loaded[w] # NoCkpt /\ \E k \in DOMAIN model_args : loaded[w].model_args[k] # model_args[k]

\* C14: a resume from a checkpoint one of whose hyperparameters differs from
\* the requested value ends in model initialisation with an error, before the
\* model is built and before iter_num and best_val_loss are taken from the
\* checkpoint; a process that got past initialisation on resume read a
\* checkpoint whose hyperparameters all equal the requested ones.
C14_MismatchIsFatal ==
  \A w \in Workers :
    /\ (init_from = "resume" /\ Mismatch(w)) =>
         /\ pc[w] = "crashed" /\ exit_kind[w] = "raised_in_init"
         /\ mode[w] = "none" /\ opt_lr[w] = NoLr
         /\ iter_num[w] = 0 /\ best_val_loss[w] = Sentinel
         /\ evals[w] = 0 /\ train_batches[w] = 0 /\ opt_steps[w] = 0
    /\ (init_from = "resume" /\ Entered(w)) => loaded[w].model_args = model_args

C14_Witness ==
  \E w \in Workers :
    /\ init_from = "resume" /\ Mismatch(w)
    /\ loaded[w].model_args.n_layer = n_layer
    /\ pc[w] = "crashed"

\* C15: once estimate_loss has been entered and left, by return or by an
\* error, the model is in training mode.
C15_TrainingModeRestored ==
  \A w \in Workers : (Entered(w) /\ pc[w] # "estimate") => mode[w] = "train"

\* C17: in a distributed run the iteration counters of two processes that
\* entered the loop differ by at most one; when every process has reached the
\* gradient all-reduce of a step they all hold the same iter_num; two
\* processes in the step of the same iteration hold the same learning rate.
C17_LockStep ==
  Distributed =>
    /\ \A a, b \in Workers :
         (Entered(a) /\ Entered(b)) =>
           /\ iter_num[a] - iter_num[b] <= 1
           /\ ({pc[a], pc[b]} \subseteq {"train", "grad_sync", "opt_step"}
                 /\ iter_num[a] = iter_num[b]) => LrEq(opt_lr[a], opt_lr[b])
    /\ (\A w \in Workers : pc[w] = "grad_sync") =>
         \A a, b \in Workers : iter_num[a] = iter_num[b] /\ LrEq(opt_lr[a], opt_lr[b])

\* two processes at the all-reduce of a later step, the master having
\* evaluated and written a checkpoint on the way
C17_Witness ==
  /\ Distributed /\ Cardinality(Workers) > 1
  /\ \A w \in Workers : pc[w] = "grad_sync" /\ iter_num[w] >= 2
  /\ \E w \in Workers : evals[w] >= 2 /\ ckpt_writes[w] > 0
  /\ \E w \in Workers : evals[w] = 0

\* C18: at every optimizer step, at iteration i, the lr of the parameter
\* groups is get_lr(i) with decay_lr and learning_rate without, on resume too.
C18_GroupLrAtStep ==
  \A w \in Workers : pc[w] = "opt_step" => LrEq(opt_lr[w], LoopLr(iter_num[w]))

\* init_process_group calls of the process
InitCalls(w) == IF group[w] = "none" THEN 0 ELSE 1

\* C19: a process that did not initialise the process group never calls its
\* release, and no process calls the release more often than the
\* initialisation.
C19_ReleaseOnlyIfInitialized ==
  \A w \in Workers :
    /\ ~ddp(w) => destroy_calls[w] = 0
    /\ destroy_calls[w] <= InitCalls(w)

\* C20: over a chain of runs that starts from scratch or from the pretrained
\* weights and continues by restarts from the checkpoint slot, the checkpoint
\* in the slot stores as iter_num the number of optimizer steps its parameters
\* received; a process holds parameters that received exactly iter_num steps,
\* so the step it takes next is the one numbered iter_num; a resumed process
\* entered the loop at the iter_num of the checkpoint it read.
C20_IterCountsSteps ==
  /\ ckpt # NoCkpt => ckpt.weights = ckpt.iter_num
  /\ \A w \in Workers :
       /\ mode[w] # "none" => weights[w] = iter_num[w]
       /\ (init_from = "resume" /\ Entered(w)) =>
            /\ start_iter[w] = loaded[w].iter_num
            /\ start_iter[w] = loaded[w].weights
            /\ weights[w] = start_iter[w] + opt_steps[w]

\* after two restarts a process resumed from the checkpoint that an earlier
\* run of the chain wrote, and took the steps numbered from its iter_num on
C20_Witness ==
  /\ runs = MaxRestarts
  /\ \E w \in Workers :
       /\ loaded[w] # NoCkpt /\ loaded[w] = ckpt
       /\ opt_steps[w] > 0
       /\ iter_num[w] = ckpt.iter_num + opt_steps[w]
       /\ pc[w] = "done"

============================================================================
